---- MODULE Spec2Model ----
(***************************************************************************)
(* A model of the leveled logging library: the message formatter (msg.go), *)
(* the rotating FileSink (file.go), the Sink contract (sink.go), the       *)
(* Logger (part_001) and the process-wide standard logger (part_000).      *)
(*                                                                         *)
(* SpecFile   : one FileSink used by one caller at a time, over a byte-    *)
(*              level model of the file on disk, with injected I/O faults. *)
(* SpecLogger : Threads calling entry points and setters of one Logger     *)
(*              concurrently, interleaved at every shared access.          *)
(* SpecFmt    : Level.String and Msg.PrintMsg applied to every Level value *)
(*              and a set of bodies.                                       *)
(***************************************************************************)
EXTENDS Integers, Sequences, FiniteSets, TLC

VARIABLES
    disk,      \* the bytes of the file at path
    file,      \* the FileSink the caller holds (made = FALSE: none)
    args,      \* the max and keep the program constructs its FileSinks with
    last,      \* history: the last FileSink call, its inputs and outcome
    nops,      \* history: number of FileSink calls made
    nfaults,   \* history: number of I/O faults met
    closed,    \* history: Close was called on the sink the caller holds
    isStd,     \* the Logger is the standard logger std (else made by NewLogger)
    enabled,   \* Logger.enabled
    exit,      \* Logger.exit: "osExit" ends the process, "recorder" returns
    sinks,     \* Logger.sinks
    mu,        \* Logger.mu: the thread holding it, or NoThread
    pc,        \* where each thread is in its call
    call,      \* each thread's current (or last) call and what it did
    msg,       \* the *Msg each thread's log() built
    rng,       \* the slice each thread's range loop iterates
    idx,       \* the position of each thread's range loop
    active,    \* per sink, the threads executing its Log
    sbuf,      \* per sink, its scratch buffer buf
    sout,      \* per sink, the writes its device received
    evals,     \* number of evaluations of a DebugFunc argument
    exitCalls, \* number of invocations of the injected exit func
    exited,    \* os.Exit was called: the process is gone
    ncalls,    \* history: number of calls made on the Logger
    recv,      \* history: per sink, the ids of the records its Log was called with
    lost,      \* history: ids of the records whose dispatch a sink's panic cut short
    fin,       \* the Msg handed to a formatter called on its own
    fres,      \* the formatter called on fin, and the bytes it produced
    rpc,       \* where the thread in FileSink.Log and the one in Close are
    fd,        \* the os.File the FileSink opened: open or closed, its offset
    rloc       \* the locals of roll and Close, and what the two threads met

fvars == <<disk, file, args, last, nops, nfaults, closed>>
lvars == <<isStd, enabled, exit, sinks, mu, pc, call, msg, rng, idx, active,
           sbuf, sout, evals, exitCalls, exited, ncalls, recv, lost>>
pvars == <<fin, fres>>
rvars == <<rpc, fd, rloc>>
vars == <<fvars, lvars, pvars, rvars>>

(***************************************************************************)
(* Bounds                                                                  *)
(***************************************************************************)
\* int64 is modelled as a two's complement integer of IntWidth bits
IntWidth == 12
\* number of FileSink calls in one behaviour
MaxOps == 4
\* number of I/O faults in one behaviour
MaxFaults == 1
\* number of calls made on the Logger in one behaviour
MaxCalls == 2
\* bytes moved per read/write pair of io.CopyN's copy loop
CopyChunk == 16

(***************************************************************************)
(* Bytes and strings (sequences of character codes)                        *)
(***************************************************************************)
ChEq == 61
ChNl == 10
ChSp == 32
ChZero == 48
ChDash == 45
ChColon == 58
ChDot == 46

Repeat(ch, n) == [i \in 1..n |-> ch]

RECURSIVE DecDigits(_)
\* the decimal digits of n >= 0, as %d prints them
DecDigits(n) ==
    IF n < 10 THEN <<ChZero + n>>
    ELSE Append(DecDigits(n \div 10), ChZero + (n % 10))

\* %0wd for n >= 0: zero padded to at least w digits
PadDec(n, w) ==
    LET d == DecDigits(n)
    IN  IF Len(d) >= w THEN d ELSE Repeat(ChZero, w - Len(d)) \o d

(***************************************************************************)
(* msg.go: Level                                                           *)
(***************************************************************************)
DEBUG == 1
NORMAL == 2
WARNING == 4
ERROR == 8
PANIC == 16
FATAL == 32
ALL == DEBUG + NORMAL + WARNING + ERROR + PANIC + FATAL

Levels == {DEBUG, NORMAL, WARNING, ERROR, PANIC, FATAL}

RECURSIVE BitAnd(_, _)
\* a & b on naturals
BitAnd(a, b) ==
    IF a = 0 \/ b = 0 THEN 0
    ELSE 2 * BitAnd(a \div 2, b \div 2) + (IF a % 2 = 1 /\ b % 2 = 1 THEN 1 ELSE 0)

\* Level.String as it would be if it tested the bits of the level in turn
LevelStringByBit(lvl) ==
    IF BitAnd(lvl, DEBUG) # 0 THEN <<91, 68, 69, 66, 85, 71, 93>>
    ELSE IF BitAnd(lvl, NORMAL) # 0 THEN <<91, 95, 95, 95, 95, 95, 93>>
    ELSE IF BitAnd(lvl, WARNING) # 0 THEN <<91, 87, 65, 82, 78, 33, 93>>
    ELSE IF BitAnd(lvl, ERROR) # 0 THEN <<91, 69, 82, 82, 79, 82, 93>>
    ELSE IF BitAnd(lvl, PANIC) # 0 THEN <<91, 80, 65, 78, 73, 67, 93>>
    ELSE IF BitAnd(lvl, FATAL) # 0 THEN <<91, 70, 65, 84, 65, 76, 93>>
    ELSE <<91, 63, 63, 63, 63, 63, 93>>

\* "[DEBUG]" etc. as character codes
LevelString(lvl) ==
    CASE lvl = DEBUG   -> <<91, 68, 69, 66, 85, 71, 93>>
      [] lvl = NORMAL  -> <<91, 95, 95, 95, 95, 95, 93>>
      [] lvl = WARNING -> <<91, 87, 65, 82, 78, 33, 93>>
      [] lvl = ERROR   -> <<91, 69, 82, 82, 79, 82, 93>>
      [] lvl = PANIC   -> <<91, 80, 65, 78, 73, 67, 93>>
      [] lvl = FATAL   -> <<91, 70, 65, 84, 65, 76, 93>>
      [] OTHER         -> <<91, 63, 63, 63, 63, 63, 93>>

(***************************************************************************)
(* msg.go: Msg and its printers.  A Msg is                                 *)
(*   [Level, Time: [year, month, day, hour, min, sec, nsec], File, Line,   *)
(*    Body]                                                                *)
(***************************************************************************)
PrintDate(m) ==
    PadDec(m.Time.year, 4) \o <<ChDash>> \o PadDec(m.Time.month, 2)
        \o <<ChDash>> \o PadDec(m.Time.day, 2)

PrintTime(m) ==
    PadDec(m.Time.hour, 2) \o <<ChColon>> \o PadDec(m.Time.min, 2)
        \o <<ChColon>> \o PadDec(m.Time.sec, 2)
        \o <<ChDot>> \o PadDec(m.Time.nsec \div 1000, 6)

PrintLevel(m) == LevelString(m.Level)

PrintFileLine(m) == m.File \o <<ChColon>> \o DecDigits(m.Line)

\* PrintMsg as it would be if it always printed with Fprintln
PrintMsgAlwaysLn(m) ==
    IF Len(m.Body) = 0 THEN <<>> ELSE m.Body \o <<ChNl>>

PrintMsg(m) ==
    IF Len(m.Body) = 0 THEN <<>>
    ELSE IF m.Body[Len(m.Body)] # ChNl THEN m.Body \o <<ChNl>>
    ELSE m.Body

\* the bytes a sink accumulates in its buffer for one record
FormatRecord(m) ==
    PrintDate(m) \o <<ChSp>> \o PrintTime(m) \o <<ChSp>> \o PrintLevel(m)
        \o <<ChSp>> \o PrintFileLine(m) \o <<ChSp>> \o PrintMsg(m)

(***************************************************************************)
(* int64 arithmetic                                                        *)
(***************************************************************************)
MaxInt64 == 2^(IntWidth - 1) - 1
MinInt64 == 0 - 2^(IntWidth - 1)

\* the int64 that the mathematical integer x becomes
Wrap64(x) == ((x - MinInt64) % 2^IntWidth) + MinInt64

Min(a, b) == IF a < b THEN a ELSE b

(***************************************************************************)
(* os.File as file.go uses it.  A handle is [nil, open, off]; the file at  *)
(* path is the byte sequence disk.  An absent file and an empty file are   *)
(* the same disk, since every open is with O_CREATE or after one.          *)
(***************************************************************************)
NilHandle == [nil |-> TRUE, open |-> FALSE, off |-> 0]

\* the file d after b is written at byte offset off (a gap reads as zeros)
WriteAt(d, off, b) ==
    LET head == IF off > Len(d) THEN d \o Repeat(0, off - Len(d))
                ELSE SubSeq(d, 1, off)
    IN  head \o b \o SubSeq(d, off + Len(b) + 1, Len(d))

\* File.Write of b on handle h: fault "fail" writes nothing, "short" writes
\* the first half; both return an error.  A closed handle writes nothing.
FileWrite(h, d, b, fault) ==
    LET n == IF ~h.open \/ fault = "fail" THEN 0
             ELSE IF fault = "short" THEN Len(b) \div 2
             ELSE Len(b)
    IN  [n    |-> n,
         err  |-> n < Len(b) \/ ~h.open,
         disk |-> IF n = 0 THEN d ELSE WriteAt(d, h.off, SubSeq(b, 1, n)),
         out  |-> [h EXCEPT !.off = h.off + n]]

\* the writer left at the start of the file instead of sought to its end
SeekStaysAtStart(d) == 0

\* the offset File.Seek(0, io.SeekEnd) returns on file d
SeekEnd(d) == Len(d)

\* Truncate as it would be if it never shortened the file
FileTruncateKeepsLength(d, size) ==
    IF size <= Len(d) THEN d
    ELSE d \o Repeat(0, size - Len(d))

\* File.Truncate(size)
FileTruncate(d, size) ==
    IF size <= Len(d) THEN SubSeq(d, 1, size)
    ELSE d \o Repeat(0, size - Len(d))

\* the reader sought to keep bytes from the start instead of from the end
SeekFromStart(len, keep) == keep

\* the offset File.Seek(0-keep, io.SeekEnd) asks for on a file of length len
SeekFromEnd(len, keep) == len - keep

RECURSIVE CopyLoop(_, _, _, _, _, _)
\* io.CopyN(out, in, n): read up to CopyChunk bytes at the reader's offset,
\* write them at the writer's offset, until n bytes are copied, the reader is
\* at end of file, or (failAfter chunks were moved) an I/O error strikes.
CopyLoop(d, outOff, inOff, remaining, written, failAfter) ==
    IF remaining = 0 THEN [disk |-> d, written |-> written, err |-> FALSE]
    ELSE IF failAfter = 0 \/ inOff >= Len(d)
         THEN [disk |-> d, written |-> written, err |-> TRUE]
    ELSE LET n     == Min(Min(CopyChunk, remaining), Len(d) - inOff)
             chunk == SubSeq(d, inOff + 1, inOff + n)
         IN  CopyLoop(WriteAt(d, outOff, chunk), outOff + n, inOff + n,
                      remaining - n, written + n, failAfter - 1)

CopyN(d, outOff, inOff, n, fault) ==
    CopyLoop(d, outOff, inOff, n, 0,
             IF fault = "copy0" THEN 0 ELSE IF fault = "copy1" THEN 1 ELSE 0 - 1)

(***************************************************************************)
(* file.go: FileSink                                                       *)
(***************************************************************************)
NoSink == [made |-> FALSE, max |-> 0, keep |-> 0, size |-> 0,
           out |-> NilHandle, buf |-> <<>>]

Separator == Repeat(ChEq, 80) \o <<ChNl>>

\* the parameter checks without the guard against keep+keep overflowing
ParamErrorNoOverflowGuard(max, keep) ==
    IF keep < 0 THEN "keep must be greater than zero"
    ELSE IF max < 0 THEN "max must be greater than zero"
    ELSE IF Wrap64(keep + keep) > max
         THEN "keep must less than or equal to half max"
    ELSE ""

\* the parameter checks of NewFileSink: the error returned, "" for none
ParamError(max, keep) ==
    IF keep < 0 THEN "keep must be greater than zero"
    ELSE IF max < 0 THEN "max must be greater than zero"
    ELSE IF MaxInt64 \div 2 < keep THEN "keep is too large"
    ELSE IF Wrap64(keep + keep) > max
         THEN "keep must less than or equal to half max"
    ELSE ""

\* roll as it would be if it went on to truncate after a failed copy
rollIgnoresCopyError(f, d, fault) ==
    LET keep  == f.keep
        out   == f.out
        inOff == SeekFromEnd(Len(d), keep)
        c     == CopyN(d, 0, inOff, keep, fault)
        moved == [f EXCEPT !.out = [out EXCEPT !.off = c.written]]
    IN  IF ~out.open \/ fault = "sync1" \/ fault = "open"
           THEN [file |-> f, disk |-> d, panicked |-> TRUE]
        ELSE IF inOff < 0 \/ fault = "seekIn" \/ fault = "seekOut"
           THEN [file |-> f, disk |-> d, panicked |-> TRUE]
        ELSE IF fault = "sync2" \/ fault = "truncate"
           THEN [file |-> moved, disk |-> c.disk, panicked |-> TRUE]
        ELSE [file     |-> [moved EXCEPT !.size = c.written],
              disk     |-> FileTruncate(c.disk, c.written),
              panicked |-> c.err]

\* FileSink.roll on sink f over file d; fault names the step that fails.
\* The result is the sink, the file and whether roll panicked.
roll(f, d, fault) ==
    LET keep  == f.keep
        out   == f.out
        inOff == SeekFromEnd(Len(d), keep)
        c     == CopyN(d, 0, inOff, keep, fault)
        moved == [f EXCEPT !.out = [out EXCEPT !.off = c.written]]
    IN  IF ~out.open \/ fault = "sync1" \/ fault = "open"
           THEN [file |-> f, disk |-> d, panicked |-> TRUE]
        ELSE IF inOff < 0 \/ fault = "seekIn" \/ fault = "seekOut"
           THEN [file |-> f, disk |-> d, panicked |-> TRUE]
        ELSE IF c.err \/ fault = "sync2" \/ fault = "truncate"
           THEN [file |-> moved, disk |-> c.disk, panicked |-> TRUE]
        ELSE [file     |-> [moved EXCEPT !.size = c.written],
              disk     |-> FileTruncate(c.disk, c.written),
              panicked |-> FALSE]

(***************************************************************************)
(* Inputs of SpecFile                                                      *)
(***************************************************************************)
\* "ab", "ab\n" and "" as bodies
Bodies == {<<97, 98>>, <<97, 98, ChNl>>, <<>>}

\* the records handed to FileSink.Log
FileMsgs ==
    {[Level |-> ERROR, Line |-> 7, Body |-> b, File |-> <<109, 46, 103, 111>>,
      Time |-> [year |-> 2018, month |-> 3, day |-> 9, hour |-> 14, min |-> 5,
                sec |-> 59, nsec |-> 1234567]] : b \in Bodies}

\* the values of max and of keep a program constructs its sinks with
MaxArgs == {0 - 1, 0, 100, 200, MaxInt64}
KeepArgs == {0 - 1, 0, 40, 60, 100, MaxInt64 \div 2, MaxInt64 \div 2 + 1}

\* what the file at path holds before the first construction
OldContent == {<<>>, [i \in 1..5 |-> 65 + i], [i \in 1..130 |-> 65 + (i % 26)]}

NewFaults == {"none", "open", "seek", "fail", "short"}
WriteFaults == {"none", "fail", "short"}
RollFaults == {"none", "sync1", "open", "seekIn", "seekOut", "copy0", "copy1",
               "sync2", "truncate"}

NoCall == [op |-> "none", result |-> "ok", max |-> 0, keep |-> 0,
           fault |-> FALSE, rolled |-> FALSE, pre |-> <<>>,
           diskBefore |-> <<>>, fileBefore |-> NoSink, wasClosed |-> FALSE,
           asked |-> 0, wrote |-> 0, werr |-> FALSE, rfault |-> "none"]

\* an injected fault spends one of the MaxFaults the behaviour may meet
Spend(injected) ==
    /\ injected => nfaults < MaxFaults
    /\ nfaults' = IF injected THEN nfaults + 1 ELSE nfaults

(***************************************************************************)
(* file.go: the operations of FileSink                                     *)
(***************************************************************************)
\* NewFileSink(path, max, keep), fault being the I/O step that fails
NewFileSink(max, keep, fault) ==
    LET end  == SeekEnd(disk)
        w    == FileWrite([nil |-> FALSE, open |-> TRUE, off |-> end],
                          disk, Separator,
                          IF fault \in {"fail", "short"} THEN fault ELSE "none")
        bad  == ParamError(max, keep) # ""
        rec == [NoCall EXCEPT !.op = "new", !.max = max, !.keep = keep,
                               !.fault = fault # "none",
                               !.diskBefore = disk, !.fileBefore = file,
                               !.wasClosed = closed]
    IN  /\ nops < MaxOps
        /\ nops' = nops + 1
        /\ closed' = FALSE
        /\ bad => fault = "none"
        /\ Spend(fault # "none")
        /\ IF bad \/ fault \in {"open", "seek"}
              THEN /\ file' = NoSink
                   /\ disk' = disk
                   /\ last' = [rec EXCEPT !.result = "err"]
           ELSE IF w.err
              THEN /\ file' = NoSink
                   /\ disk' = w.disk
                   /\ last' = [rec EXCEPT !.result = "err"]
           ELSE /\ file' = [made |-> TRUE, max |-> max, keep |-> keep,
                            size |-> Wrap64(end + w.n),
                            out |-> w.out, buf |-> <<>>]
                /\ disk' = w.disk
                /\ last' = rec

\* the rec record of a Close that ended with result
CloseCall(result) ==
    [NoCall EXCEPT !.op = "close", !.diskBefore = disk, !.fileBefore = file,
                   !.wasClosed = closed, !.result = result]

\* Close as it would be if it left file.out pointing at the closed handle
CloseKeepsHandle ==
    /\ nops < MaxOps
    /\ file.made
    /\ nops' = nops + 1
    /\ closed' = TRUE
    /\ file' = [file EXCEPT !.out.open = FALSE]
    /\ disk' = disk
    /\ last' = CloseCall(IF file.out.nil \/ ~file.out.open THEN "err" ELSE "ok")
    /\ UNCHANGED nfaults

\* Close as it would be if it synced first and, as roll does, panicked on
\* the error of a Sync
CloseSyncsFirst ==
    /\ nops < MaxOps
    /\ file.made
    /\ nops' = nops + 1
    /\ closed' = TRUE
    /\ file' = [file EXCEPT !.out = NilHandle]
    /\ disk' = disk
    /\ last' = CloseCall(IF file.out.nil \/ ~file.out.open THEN "panic" ELSE "ok")
    /\ UNCHANGED nfaults

\* FileSink.Close: file.out becomes nil and the old handle is closed; Close
\* of a nil *os.File returns an error (os.ErrInvalid)
Close ==
    /\ nops < MaxOps
    /\ file.made
    /\ nops' = nops + 1
    /\ closed' = TRUE
    /\ file' = [file EXCEPT !.out = NilHandle]
    /\ disk' = disk
    /\ last' = CloseCall(IF file.out.nil \/ ~file.out.open THEN "err" ELSE "ok")
    /\ UNCHANGED nfaults

\* the size as it would be if Log counted the bytes it asked to write
SizePlusAsked(size, n, asked) == Wrap64(size + asked)

\* file.size + int64(n), n being the bytes Write reports of the asked ones
SizePlusWritten(size, n, asked) == Wrap64(size + n)

\* FileSink.Log(m): wfault is the fate of the write, rfault of the rotation
Log(m, wfault, rfault) ==
    LET b     == FormatRecord(m)
        w     == FileWrite(file.out, disk, b, wfault)
        wrote == [file EXCEPT !.out = w.out,
                              !.size = SizePlusWritten(file.size, w.n, Len(b))]
        r     == roll(wrote, w.disk, rfault)
        rolls == ~file.out.nil /\ wrote.size >= wrote.max
        rec   == [NoCall EXCEPT !.op = "log", !.diskBefore = disk,
                                !.fileBefore = file, !.wasClosed = closed,
                                !.max = file.max, !.keep = file.keep,
                                !.asked = IF file.out.nil THEN 0 ELSE Len(b),
                                !.wrote = IF file.out.nil THEN 0 ELSE w.n,
                                !.werr = ~file.out.nil /\ w.err,
                                !.rfault = rfault]
    IN  /\ nops < MaxOps
        /\ file.made
        /\ nops' = nops + 1
        /\ UNCHANGED closed
        /\ file.out.nil => wfault = "none"
        /\ ~rolls => rfault = "none"
        /\ wfault = "none" \/ rfault = "none"
        /\ Spend(wfault # "none" \/ rfault # "none")
        /\ IF file.out.nil
              THEN /\ UNCHANGED <<file, disk>>
                   /\ last' = rec
           ELSE IF rolls
              THEN /\ file' = r.file
                   /\ disk' = r.disk
                   /\ last' = [rec EXCEPT !.rolled = TRUE, !.pre = w.disk,
                                           !.fault = w.err \/ r.panicked,
                                           !.result = IF r.panicked THEN "panic"
                                                      ELSE "ok"]
           ELSE /\ file' = wrote
                /\ disk' = w.disk
                /\ last' = [rec EXCEPT !.fault = w.err]

(***************************************************************************)
(* part_001, part_000: the Logger and the standard logger                  *)
(***************************************************************************)
Threads == {"t1", "t2"}
NoThread == "none"

SinkIds == {"out", "err", "file"}

\* the sink lists given to NewLogger and SetSinks
SinkLists == {<<"file">>, <<"err", "out">>, <<"file", "err">>}

\* the masks given to NewLogger and SetEnabled
MaskSet == {0, NORMAL, PANIC + FATAL, ALL}

ExitFuncs == {"osExit", "recorder"}

\* the (enabled, exit, sinks) a program passes to NewLogger
LoggerConfigs ==
    {[enabled |-> ALL, exit |-> "recorder", sinks |-> <<"err", "out">>],
     [enabled |-> ALL, exit |-> "osExit", sinks |-> <<"file">>],
     [enabled |-> NORMAL, exit |-> "recorder", sinks |-> <<"file">>],
     [enabled |-> ALL, exit |-> "recorder", sinks |-> <<"file", "err">>]}

\* the text the caller passes, "m"
Text == <<109>>

\* fmt.Sprint, fmt.Sprintln and fmt.Sprintf("%s") of the text, and fn()
Sprint(conv, text) == IF conv = "println" THEN text \o <<ChNl>> ELSE text

\* the entry points called: per level, its call conventions
EntryPoints ==
    {[lvl |-> DEBUG, conv |-> "func"], [lvl |-> DEBUG, conv |-> "print"],
     [lvl |-> NORMAL, conv |-> "println"], [lvl |-> WARNING, conv |-> "printf"],
     [lvl |-> ERROR, conv |-> "print"]}
    \cup [lvl : {PANIC, FATAL}, conv : {"print", "println", "printf"}]

\* the gate of Warningf as a copy of Println's gate would have it
GateLevelOfPrintln(ep) == IF ep.lvl = WARNING THEN NORMAL ELSE ep.lvl

\* the level an entry point tests in the enabled mask: its own
GateLevel(ep) == ep.lvl

\* the gate of every entry point: l.enabled&LEVEL != LEVEL returns
Enabled(mask, lvl) == BitAnd(mask, lvl) = lvl

\* the sinks as they would be if StdOutSink's filter left out PANIC
DropsAllButPanic(s, lvl) ==
    CASE s = "out" -> BitAnd(lvl, WARNING + ERROR + FATAL) > 0
      [] s = "err" -> BitAnd(lvl, DEBUG + NORMAL) > 0
      [] OTHER     -> FALSE

\* StdOutSink.Log and StdErrSink.Log return at once for these levels;
\* an open FileSink writes every record
Drops(s, lvl) ==
    CASE s = "out" -> BitAnd(lvl, WARNING + ERROR + PANIC + FATAL) > 0
      [] s = "err" -> BitAnd(lvl, DEBUG + NORMAL) > 0
      [] OTHER     -> FALSE

\* the Panic entry points as they would be without their panic(msg)
RaisesNoPanic(lvl) == FALSE

\* whether the entry point of level lvl ends in panic(msg)
RaisesPanic(lvl) == lvl = PANIC

NoMsg == [Level |-> 0, Body |-> <<>>, id |-> 0]

NoCallL == [id |-> 0, kind |-> "none", lvl |-> 0, via |-> "method",
            func |-> FALSE, body |-> <<>>, passed |-> FALSE, done |-> <<>>,
            exitRan |-> "none", exitCfg |-> "none", exitCount |-> 0,
            outcome |-> "none", panicVal |-> <<>>]

\* the value a failed rotation panics with (an error, not a message)
RollError == <<0>>

\* the two appends a sink makes to its buffer for record m: the date, time,
\* level and file:line fields, then the body
HeadPiece(m) == [id |-> m.id, part |-> "head", lvl |-> m.Level]
BodyPiece(m) == [id |-> m.id, part |-> "body", lvl |-> m.Level]

CanCall(t) == ~exited /\ pc[t] = "idle" /\ ncalls < MaxCalls

\* a thread calls an entry point: the gate, then the body is built and log()
\* builds the Msg, up to its mu.Lock()
Enter(t, ep, via) ==
    LET passed == Enabled(enabled, GateLevel(ep))
        body   == Sprint(ep.conv, Text)
        c      == [NoCallL EXCEPT !.id = ncalls + 1, !.kind = "log",
                                  !.lvl = ep.lvl, !.via = via,
                                  !.func = (ep.conv = "func")]
    IN  /\ CanCall(t)
        /\ via = "pkg" => isStd
        /\ ncalls' = ncalls + 1
        /\ IF passed
              THEN /\ pc' = [pc EXCEPT ![t] = "log"]
                   /\ call' = [call EXCEPT ![t] = [c EXCEPT !.passed = TRUE,
                                                            !.body = body,
                                                            !.outcome = "running"]]
                   /\ msg' = [msg EXCEPT ![t] = [Level |-> ep.lvl, Body |-> body,
                                                 id |-> ncalls + 1]]
                   /\ evals' = IF ep.conv = "func" THEN evals + 1 ELSE evals
              ELSE /\ call' = [call EXCEPT ![t] = [c EXCEPT !.outcome = "returned"]]
                   /\ msg' = [msg EXCEPT ![t] = NoMsg]
                   /\ UNCHANGED <<pc, evals>>
        /\ UNCHANGED <<recv, lost, isStd, enabled, exit, sinks, mu, rng, idx, active, sbuf,
                       sout, exitCalls, exited>>

\* mu.Lock() as it would be if it did not wait for the holder
LockNoWait(t) ==
    /\ ~exited
    /\ pc[t] = "log"
    /\ mu' = t
    /\ rng' = [rng EXCEPT ![t] = sinks]
    /\ idx' = [idx EXCEPT ![t] = 1]
    /\ pc' = [pc EXCEPT ![t] = "range"]
    /\ UNCHANGED <<recv, lost, isStd, enabled, exit, sinks, call, msg, active, sbuf, sout,
                   evals, exitCalls, exited, ncalls>>

\* l.mu.Lock() in log(), and the evaluation of l.sinks by the range statement
Lock(t) ==
    /\ ~exited
    /\ pc[t] = "log"
    /\ mu = NoThread
    /\ mu' = t
    /\ rng' = [rng EXCEPT ![t] = sinks]
    /\ idx' = [idx EXCEPT ![t] = 1]
    /\ pc' = [pc EXCEPT ![t] = "range"]
    /\ UNCHANGED <<recv, lost, isStd, enabled, exit, sinks, call, msg, active, sbuf, sout,
                   evals, exitCalls, exited, ncalls>>

\* sink.Log(msg) is called on the next sink of the range: a sink that drops
\* the level returns at once, another starts on its buffer
SinkLog(t) ==
    /\ ~exited
    /\ pc[t] = "range"
    /\ idx[t] <= Len(rng[t])
    /\ LET s == rng[t][idx[t]]
       IN  /\ recv' = [recv EXCEPT ![s] = Append(@, msg[t].id)]
           /\ IF Drops(s, msg[t].Level)
                 THEN /\ idx' = [idx EXCEPT ![t] = @ + 1]
                      /\ call' = [call EXCEPT ![t].done = Append(@, s)]
                      /\ UNCHANGED <<pc, active>>
                 ELSE /\ pc' = [pc EXCEPT ![t] = "sinkHead"]
                      /\ active' = [active EXCEPT ![s] = @ \cup {t}]
                      /\ UNCHANGED <<idx, call>>
    /\ UNCHANGED <<lost, isStd, enabled, exit, sinks, mu, msg, rng, sbuf, sout, evals,
                   exitCalls, exited, ncalls>>

\* PrintDate .. PrintFileLine and their separators into the sink's buffer
SinkHead(t) ==
    /\ ~exited
    /\ pc[t] = "sinkHead"
    /\ LET s == rng[t][idx[t]]
       IN  sbuf' = [sbuf EXCEPT ![s] = Append(@, HeadPiece(msg[t]))]
    /\ pc' = [pc EXCEPT ![t] = "sinkBody"]
    /\ UNCHANGED <<recv, lost, isStd, enabled, exit, sinks, mu, call, msg, rng, idx, active,
                   sout, evals, exitCalls, exited, ncalls>>

\* PrintMsg into the sink's buffer (nothing for an empty body)
SinkBody(t) ==
    /\ ~exited
    /\ pc[t] = "sinkBody"
    /\ LET s == rng[t][idx[t]]
       IN  sbuf' = [sbuf EXCEPT ![s] = IF Len(msg[t].Body) = 0 THEN @
                                        ELSE Append(@, BodyPiece(msg[t]))]
    /\ pc' = [pc EXCEPT ![t] = "sinkFlush"]
    /\ UNCHANGED <<recv, lost, isStd, enabled, exit, sinks, mu, call, msg, rng, idx, active,
                   sout, evals, exitCalls, exited, ncalls>>

\* log() as it would be if it took the lock for each sink's Log on its own
\* and released it when that Log returns
SinkFlushReleasesLock(t, panics) ==
    /\ ~exited
    /\ pc[t] = "sinkFlush"
    /\ LET s == rng[t][idx[t]]
       IN  /\ panics => s = "file"
           /\ sout' = [sout EXCEPT ![s] = Append(@, sbuf[s])]
           /\ sbuf' = [sbuf EXCEPT ![s] = <<>>]
           /\ active' = [active EXCEPT ![s] = @ \ {t}]
           /\ mu' = NoThread
           /\ IF panics
                 THEN /\ pc' = [pc EXCEPT ![t] = "idle"]
                      /\ call' = [call EXCEPT ![t].outcome = "panicked",
                                              ![t].panicVal = RollError]
                      /\ idx' = idx
                      /\ lost' = lost \cup {msg[t].id}
                 ELSE /\ pc' = [pc EXCEPT ![t] = "range"]
                      /\ call' = [call EXCEPT ![t].done = Append(@, s)]
                      /\ idx' = [idx EXCEPT ![t] = @ + 1]
                      /\ lost' = lost
    /\ UNCHANGED <<recv, isStd, enabled, exit, sinks, msg, rng, evals,
                   exitCalls, exited, ncalls>>

\* log() as it would be if it unlocked after its loop instead of deferring
\* the unlock: a panic out of a sink's Log leaves the lock held
SinkFlushPanicKeepsLock(t, panics) ==
    /\ ~exited
    /\ pc[t] = "sinkFlush"
    /\ LET s == rng[t][idx[t]]
       IN  /\ panics => s = "file"
           /\ sout' = [sout EXCEPT ![s] = Append(@, sbuf[s])]
           /\ sbuf' = [sbuf EXCEPT ![s] = <<>>]
           /\ active' = [active EXCEPT ![s] = @ \ {t}]
           /\ mu' = mu
           /\ IF panics
                 THEN /\ pc' = [pc EXCEPT ![t] = "idle"]
                      /\ call' = [call EXCEPT ![t].outcome = "panicked",
                                              ![t].panicVal = RollError]
                      /\ idx' = idx
                      /\ lost' = lost \cup {msg[t].id}
                 ELSE /\ pc' = [pc EXCEPT ![t] = "range"]
                      /\ call' = [call EXCEPT ![t].done = Append(@, s)]
                      /\ idx' = [idx EXCEPT ![t] = @ + 1]
                      /\ lost' = lost
    /\ UNCHANGED <<recv, isStd, enabled, exit, sinks, msg, rng, evals,
                   exitCalls, exited, ncalls>>

\* the buffer is written to the device and reset, and sink.Log returns; a
\* FileSink whose rotation fails panics instead, and the deferred
\* l.mu.Unlock() of log() runs as the panic leaves log()
SinkFlush(t, panics) ==
    /\ ~exited
    /\ pc[t] = "sinkFlush"
    /\ LET s == rng[t][idx[t]]
       IN  /\ panics => s = "file"
           /\ sout' = [sout EXCEPT ![s] = Append(@, sbuf[s])]
           /\ sbuf' = [sbuf EXCEPT ![s] = <<>>]
           /\ active' = [active EXCEPT ![s] = @ \ {t}]
           /\ IF panics
                 THEN /\ mu' = NoThread
                      /\ pc' = [pc EXCEPT ![t] = "idle"]
                      /\ call' = [call EXCEPT ![t].outcome = "panicked",
                                              ![t].panicVal = RollError]
                      /\ idx' = idx
                      /\ lost' = lost \cup {msg[t].id}
                 ELSE /\ mu' = mu
                      /\ pc' = [pc EXCEPT ![t] = "range"]
                      /\ call' = [call EXCEPT ![t].done = Append(@, s)]
                      /\ idx' = [idx EXCEPT ![t] = @ + 1]
                      /\ lost' = lost
    /\ UNCHANGED <<recv, isStd, enabled, exit, sinks, msg, rng, evals, exitCalls,
                   exited, ncalls>>

\* log() as it would be if its loop ended one sink early
UnlockBeforeLast(t) ==
    /\ ~exited
    /\ pc[t] = "range"
    /\ idx[t] >= Len(rng[t])
    /\ mu' = NoThread
    /\ pc' = [pc EXCEPT ![t] = "after"]
    /\ UNCHANGED <<recv, lost, isStd, enabled, exit, sinks, call, msg, rng, idx,
                   active, sbuf, sout, evals, exitCalls, exited, ncalls>>

\* the range is over: log() returns and its deferred l.mu.Unlock() runs
Unlock(t) ==
    /\ ~exited
    /\ pc[t] = "range"
    /\ idx[t] > Len(rng[t])
    /\ mu' = NoThread
    /\ pc' = [pc EXCEPT ![t] = "after"]
    /\ UNCHANGED <<recv, lost, isStd, enabled, exit, sinks, call, msg, rng, idx, active,
                   sbuf, sout, evals, exitCalls, exited, ncalls>>

\* what the entry point does after log() returned: panic(msg) for PANIC;
\* l.exit() in the methods and os.Exit(1) in the package functions for FATAL;
\* nothing else
After(t) ==
    LET c   == call[t]
        ran == IF c.via = "pkg" THEN "osExit" ELSE exit
    IN  /\ ~exited
        /\ pc[t] = "after"
        /\ pc' = [pc EXCEPT ![t] = "idle"]
        /\ IF RaisesPanic(c.lvl)
              THEN /\ call' = [call EXCEPT ![t].outcome = "panicked",
                                           ![t].panicVal = c.body]
                   /\ UNCHANGED <<exitCalls, exited>>
           ELSE IF c.lvl = FATAL
              THEN /\ call' = [call EXCEPT ![t].exitRan = ran,
                                           ![t].exitCfg = exit,
                                           ![t].exitCount = @ + 1,
                                           ![t].outcome =
                                               IF ran = "osExit" THEN "exited"
                                               ELSE "returned"]
                   /\ exited' = (ran = "osExit")
                   /\ exitCalls' = IF ran = "recorder" THEN exitCalls + 1
                                   ELSE exitCalls
           ELSE /\ call' = [call EXCEPT ![t].outcome = "returned"]
                /\ UNCHANGED <<exitCalls, exited>>
        /\ UNCHANGED <<recv, lost, isStd, enabled, exit, sinks, mu, msg, rng, idx, active,
                       sbuf, sout, evals, ncalls>>

\* the frame of a setter of the standard logger: lock, assign, unlock
Setter(t) ==
    /\ CanCall(t)
    /\ isStd
    /\ mu = NoThread
    /\ ncalls' = ncalls + 1
    /\ call' = [call EXCEPT ![t] = [NoCallL EXCEPT !.id = ncalls + 1,
                                                   !.kind = "set",
                                                   !.via = "pkg",
                                                   !.outcome = "returned"]]
    /\ UNCHANGED <<recv, lost, isStd, mu, pc, msg, rng, idx, active, sbuf, sout, evals,
                   exitCalls, exited>>

SetEnabled(t, mask) ==
    /\ Setter(t)
    /\ enabled' = mask
    /\ UNCHANGED <<exit, sinks>>

SetExit(t, fn) ==
    /\ Setter(t)
    /\ exit' = fn
    /\ UNCHANGED <<enabled, sinks>>

SetSinks(t, list) ==
    /\ Setter(t)
    /\ sinks' = list
    /\ UNCHANGED <<enabled, exit>>

\* the threads, the sinks and the history before any call
IdleLogger ==
    /\ mu = NoThread
    /\ pc = [t \in Threads |-> "idle"]
    /\ call = [t \in Threads |-> NoCallL]
    /\ msg = [t \in Threads |-> NoMsg]
    /\ rng = [t \in Threads |-> <<>>]
    /\ idx = [t \in Threads |-> 1]
    /\ active = [s \in SinkIds |-> {}]
    /\ sbuf = [s \in SinkIds |-> <<>>]
    /\ sout = [s \in SinkIds |-> <<>>]
    /\ evals = 0
    /\ exitCalls = 0
    /\ exited = FALSE
    /\ ncalls = 0
    /\ recv = [s \in SinkIds |-> <<>>]
    /\ lost = {}

\* var std = &Logger{enabled: ALL, exit: os.Exit(1)}
StdLogger ==
    /\ isStd = TRUE
    /\ enabled = ALL
    /\ exit = "osExit"
    /\ sinks = <<>>

\* NewLogger(enabled, exit, sinks...)
NewLogger(cfg) ==
    /\ isStd = FALSE
    /\ enabled = cfg.enabled
    /\ exit = cfg.exit
    /\ sinks = cfg.sinks

\* no FileSink is in use
IdleFile ==
    /\ disk = <<>>
    /\ args = [max |-> 0, keep |-> 0]
    /\ file = NoSink
    /\ last = NoCall
    /\ nops = 0
    /\ nfaults = 0
    /\ closed = FALSE

(***************************************************************************)
(* file.go: Close called by one thread while another is in Log             *)
(***************************************************************************)
\* neither thread has started
NoRace == [log |-> "idle", close |-> "idle"]

\* the os.File behind file.out: whether it is open, and its offset
NoFile == [open |-> FALSE, off |-> 0]

\* out of roll and out of Close (TRUE: a nil pointer), whether a Log call
\* panicked, and the file as it was when Close returned
NoLocals == [rollOutNil |-> TRUE, closeOutNil |-> TRUE, panicked |-> FALSE,
             closeErr |-> FALSE, diskAtClose |-> <<>>]

(***************************************************************************)
(* The formatters of msg.go called on their own                            *)
(***************************************************************************)
\* type Level uint8
MaxLevel == 255

\* "", "ab", "ab\n", "\n", "ab\n\n", "a\nb" and "\nab" as bodies
FmtBodies ==
    Bodies \cup {<<ChNl>>, <<97, 98, ChNl, ChNl>>, <<97, ChNl, 98>>,
                 <<ChNl, 97, 98>>}

\* the Msgs handed to the formatters
FmtMsgs == [Level : 0..MaxLevel, Body : FmtBodies, id : {0}]

NoFmt == [op |-> "none", out |-> <<>>]

\* m.PrintLevel(w): w receives m.Level.String()
CallPrintLevel ==
    /\ fres' = [op |-> "PrintLevel", out |-> PrintLevel(fin)]
    /\ UNCHANGED fin

\* m.PrintMsg(w)
CallPrintMsg ==
    /\ fres' = [op |-> "PrintMsg", out |-> PrintMsg(fin)]
    /\ UNCHANGED fin

\* no formatter is called on its own, and no Close races with a Log
IdleFmt ==
    /\ fin = NoMsg
    /\ fres = NoFmt
    /\ rpc = NoRace
    /\ fd = NoFile
    /\ rloc = NoLocals

InitLogger ==
    /\ IdleFile
    /\ IdleFmt
    /\ IdleLogger
    /\ StdLogger \/ \E cfg \in LoggerConfigs : NewLogger(cfg)

NextLogger ==
    \/ \E t \in Threads, ep \in EntryPoints, via \in {"method", "pkg"} :
           Enter(t, ep, via) /\ UNCHANGED <<fvars, pvars, rvars>>
    \/ \E t \in Threads : Lock(t) /\ UNCHANGED <<fvars, pvars, rvars>>
    \/ \E t \in Threads : SinkLog(t) /\ UNCHANGED <<fvars, pvars, rvars>>
    \/ \E t \in Threads : SinkHead(t) /\ UNCHANGED <<fvars, pvars, rvars>>
    \/ \E t \in Threads : SinkBody(t) /\ UNCHANGED <<fvars, pvars, rvars>>
    \/ \E t \in Threads, panics \in BOOLEAN : SinkFlush(t, panics) /\ UNCHANGED <<fvars, pvars, rvars>>
    \/ \E t \in Threads : Unlock(t) /\ UNCHANGED <<fvars, pvars, rvars>>
    \/ \E t \in Threads : After(t) /\ UNCHANGED <<fvars, pvars, rvars>>
    \/ \E t \in Threads, mask \in MaskSet : SetEnabled(t, mask) /\ UNCHANGED <<fvars, pvars, rvars>>
    \/ \E t \in Threads, fn \in ExitFuncs : SetExit(t, fn) /\ UNCHANGED <<fvars, pvars, rvars>>
    \/ \E t \in Threads, list \in SinkLists : SetSinks(t, list) /\ UNCHANGED <<fvars, pvars, rvars>>

SpecLogger == InitLogger /\ [][NextLogger]_vars

\* a thread inside log() goes on: a free mutex is taken by a thread that
\* asks for it, every sink's Log returns or panics, and log() returns
Progress(t) ==
    /\ WF_vars(Lock(t) /\ UNCHANGED <<fvars, pvars, rvars>>)
    /\ WF_vars(SinkLog(t) /\ UNCHANGED <<fvars, pvars, rvars>>)
    /\ WF_vars(SinkHead(t) /\ UNCHANGED <<fvars, pvars, rvars>>)
    /\ WF_vars(SinkBody(t) /\ UNCHANGED <<fvars, pvars, rvars>>)
    /\ WF_vars((\E panics \in BOOLEAN : SinkFlush(t, panics))
                   /\ UNCHANGED <<fvars, pvars, rvars>>)
    /\ WF_vars(Unlock(t) /\ UNCHANGED <<fvars, pvars, rvars>>)

\* the calls and the Logger of the behaviours checked for progress: one level
\* that returns and the one that exits, one NewLogger configuration with the
\* FileSink ahead of another sink, and the standard logger with SetSinks
LockEntryPoints ==
    {[lvl |-> ERROR, conv |-> "print"], [lvl |-> FATAL, conv |-> "print"]}

LockConfig == [enabled |-> ALL, exit |-> "recorder", sinks |-> <<"file", "err">>]

InitLock ==
    /\ IdleFile
    /\ IdleFmt
    /\ IdleLogger
    /\ StdLogger \/ NewLogger(LockConfig)

NextLock ==
    \/ \E t \in Threads, ep \in LockEntryPoints, via \in {"method", "pkg"} :
           Enter(t, ep, via) /\ UNCHANGED <<fvars, pvars, rvars>>
    \/ \E t \in Threads : Lock(t) /\ UNCHANGED <<fvars, pvars, rvars>>
    \/ \E t \in Threads : SinkLog(t) /\ UNCHANGED <<fvars, pvars, rvars>>
    \/ \E t \in Threads : SinkHead(t) /\ UNCHANGED <<fvars, pvars, rvars>>
    \/ \E t \in Threads : SinkBody(t) /\ UNCHANGED <<fvars, pvars, rvars>>
    \/ \E t \in Threads, panics \in BOOLEAN :
           SinkFlush(t, panics) /\ UNCHANGED <<fvars, pvars, rvars>>
    \/ \E t \in Threads : Unlock(t) /\ UNCHANGED <<fvars, pvars, rvars>>
    \/ \E t \in Threads : After(t) /\ UNCHANGED <<fvars, pvars, rvars>>
    \/ \E t \in Threads : SetSinks(t, LockConfig.sinks) /\ UNCHANGED <<fvars, pvars, rvars>>

SpecLockFair ==
    InitLock /\ [][NextLock]_vars /\ \A t \in Threads : Progress(t)

(***************************************************************************)
(* The FileSink on its own                                                 *)
(***************************************************************************)
InitFile ==
    /\ disk \in OldContent
    /\ args \in [max : MaxArgs, keep : KeepArgs]
    /\ file = NoSink
    /\ last = NoCall
    /\ nops = 0
    /\ nfaults = 0
    /\ closed = FALSE
    /\ IdleLogger
    /\ StdLogger
    /\ IdleFmt

NextFile ==
    \/ \E fault \in NewFaults :
           NewFileSink(args.max, args.keep, fault) /\ UNCHANGED <<args, lvars, pvars, rvars>>
    \/ \E m \in FileMsgs, wfault \in WriteFaults, rfault \in RollFaults :
           Log(m, wfault, rfault) /\ UNCHANGED <<args, lvars, pvars, rvars>>
    \/ Close /\ UNCHANGED <<args, lvars, pvars, rvars>>

SpecFile == InitFile /\ [][NextFile]_vars

(***************************************************************************)
(* One thread in FileSink.Log, another in FileSink.Close, on one FileSink. *)
(* FileSink has no lock of its own and Close is not called under the       *)
(* Logger's: the two interleave at every access to file.out and to the     *)
(* os.File.  A racing read of the pointer file.out sees nil or the handle. *)
(***************************************************************************)
\* file.out while it points at the os.File (whose state is fd)
TheHandle == [nil |-> FALSE, open |-> TRUE, off |-> 0]

\* the (max, keep) of the sink
RaceArgs == {[max |-> 100, keep |-> 40], [max |-> 200, keep |-> 60]}

\* the sink and the file as NewFileSink(path, a.max, a.keep) leaves them on a
\* file holding old
Constructed(old, a) ==
    /\ disk = old \o Separator
    /\ args = a
    /\ file = [made |-> TRUE, max |-> a.max, keep |-> a.keep,
               size |-> Wrap64(SeekEnd(old) + Len(Separator)),
               out |-> TheHandle, buf |-> <<>>]
    /\ fd = [open |-> TRUE, off |-> SeekEnd(old) + Len(Separator)]

\* the handle an access through pointer p reaches: none through nil
Through(pNil) ==
    [nil |-> pNil, open |-> ~pNil /\ fd.open, off |-> fd.off]

\* panic(err) in roll: the Log call ends
RollPanics ==
    /\ rloc' = [rloc EXCEPT !.panicked = TRUE]
    /\ rpc' = [rpc EXCEPT !.log = "idle"]

\* Log is called: if file.out == nil { return }
LogCheck ==
    /\ rpc.log = "idle"
    /\ ~rloc.panicked
    /\ nops < MaxOps
    /\ nops' = nops + 1
    /\ rpc' = [rpc EXCEPT !.log = IF file.out.nil THEN "idle" ELSE "write"]
    /\ UNCHANGED <<disk, file, closed, fd, rloc>>

\* n, _ := file.out.Write(buf.Bytes()); file.size += n; the test of size
LogWrite(m) ==
    LET b == FormatRecord(m)
        w == FileWrite(Through(file.out.nil), disk, b, "none")
        size == SizePlusWritten(file.size, w.n, Len(b))
    IN  /\ rpc.log = "write"
        /\ disk' = w.disk
        /\ fd' = [fd EXCEPT !.off = w.out.off]
        /\ file' = [file EXCEPT !.size = size]
        /\ rpc' = [rpc EXCEPT !.log = IF size >= file.max THEN "roll"
                                      ELSE "idle"]
        /\ UNCHANGED <<nops, closed, rloc>>

\* roll: out := file.out
RollOut ==
    /\ rpc.log = "roll"
    /\ rloc' = [rloc EXCEPT !.rollOutNil = file.out.nil]
    /\ rpc' = [rpc EXCEPT !.log = "sync1"]
    /\ UNCHANGED <<disk, file, nops, closed, fd>>

\* roll: out.Sync()
RollSync1 ==
    /\ rpc.log = "sync1"
    /\ IF Through(rloc.rollOutNil).open
          THEN rpc' = [rpc EXCEPT !.log = "seekIn"] /\ UNCHANGED rloc
          ELSE RollPanics
    /\ UNCHANGED <<disk, file, nops, closed, fd>>

\* roll: os.OpenFile(path, O_RDONLY) and in.Seek(0-keep, io.SeekEnd)
RollSeekIn ==
    /\ rpc.log = "seekIn"
    /\ IF SeekFromEnd(Len(disk), file.keep) >= 0
          THEN rpc' = [rpc EXCEPT !.log = "seekOut"] /\ UNCHANGED rloc
          ELSE RollPanics
    /\ UNCHANGED <<disk, file, nops, closed, fd>>

\* roll: out.Seek(0, io.SeekStart)
RollSeekOut ==
    /\ rpc.log = "seekOut"
    /\ IF Through(rloc.rollOutNil).open
          THEN /\ rpc' = [rpc EXCEPT !.log = "copy"]
               /\ fd' = [fd EXCEPT !.off = 0]
               /\ UNCHANGED rloc
          ELSE RollPanics /\ UNCHANGED fd
    /\ UNCHANGED <<disk, file, nops, closed>>

\* roll: io.CopyN(out, in, keep), whose writes fail on a closed handle
RollCopy ==
    LET c == CopyN(disk, fd.off, SeekFromEnd(Len(disk), file.keep), file.keep,
                   IF Through(rloc.rollOutNil).open THEN "none" ELSE "copy0")
    IN  /\ rpc.log = "copy"
        /\ IF c.err
              THEN RollPanics /\ UNCHANGED <<disk, fd>>
              ELSE /\ rpc' = [rpc EXCEPT !.log = "sync2"]
                   /\ disk' = c.disk
                   /\ fd' = [fd EXCEPT !.off = c.written]
                   /\ UNCHANGED rloc
        /\ UNCHANGED <<file, nops, closed>>

\* roll: the second out.Sync()
RollSync2 ==
    /\ rpc.log = "sync2"
    /\ IF Through(rloc.rollOutNil).open
          THEN rpc' = [rpc EXCEPT !.log = "truncate"] /\ UNCHANGED rloc
          ELSE RollPanics
    /\ UNCHANGED <<disk, file, nops, closed, fd>>

\* roll: out.Truncate(keep) and file.size = keep
RollTruncate ==
    /\ rpc.log = "truncate"
    /\ IF Through(rloc.rollOutNil).open
          THEN /\ rpc' = [rpc EXCEPT !.log = "idle"]
               /\ disk' = FileTruncate(disk, file.keep)
               /\ file' = [file EXCEPT !.size = file.keep]
               /\ UNCHANGED rloc
          ELSE RollPanics /\ UNCHANGED <<disk, file>>
    /\ UNCHANGED <<nops, closed, fd>>

\* Close: out := file.out
CloseOut ==
    /\ rpc.close = "idle"
    /\ rloc' = [rloc EXCEPT !.closeOutNil = file.out.nil]
    /\ rpc' = [rpc EXCEPT !.close = "assign"]
    /\ UNCHANGED <<disk, file, nops, closed, fd>>

\* Close: file.out = nil
CloseAssign ==
    /\ rpc.close = "assign"
    /\ file' = [file EXCEPT !.out = NilHandle]
    /\ rpc' = [rpc EXCEPT !.close = "close"]
    /\ UNCHANGED <<disk, nops, closed, fd, rloc>>

\* Close: return out.Close()
CloseHandle ==
    /\ rpc.close = "close"
    /\ fd' = [fd EXCEPT !.open = FALSE]
    /\ closed' = TRUE
    /\ rloc' = [rloc EXCEPT !.closeErr = ~Through(rloc.closeOutNil).open,
                            !.diskAtClose = disk]
    /\ rpc' = [rpc EXCEPT !.close = "done"]
    /\ UNCHANGED <<disk, file, nops>>

InitRace ==
    /\ \E old \in OldContent, a \in RaceArgs : Constructed(old, a)
    /\ last = NoCall
    /\ nops = 0
    /\ nfaults = 0
    /\ closed = FALSE
    /\ rpc = NoRace
    /\ rloc = NoLocals
    /\ fin = NoMsg
    /\ fres = NoFmt
    /\ IdleLogger
    /\ StdLogger

\* what no step of the two threads changes
RaceFrame == UNCHANGED <<args, last, nfaults, lvars, pvars>>

NextRace ==
    \/ LogCheck /\ RaceFrame
    \/ \E m \in FileMsgs : LogWrite(m) /\ RaceFrame
    \/ RollOut /\ RaceFrame
    \/ RollSync1 /\ RaceFrame
    \/ RollSeekIn /\ RaceFrame
    \/ RollSeekOut /\ RaceFrame
    \/ RollCopy /\ RaceFrame
    \/ RollSync2 /\ RaceFrame
    \/ RollTruncate /\ RaceFrame
    \/ CloseOut /\ RaceFrame
    \/ CloseAssign /\ RaceFrame
    \/ CloseHandle /\ RaceFrame

SpecRace == InitRace /\ [][NextRace]_vars

(***************************************************************************)
(* The formatters on their own                                             *)
(***************************************************************************)
InitFmt ==
    /\ fin \in FmtMsgs
    /\ fres = NoFmt
    /\ rpc = NoRace
    /\ fd = NoFile
    /\ rloc = NoLocals
    /\ IdleFile
    /\ IdleLogger
    /\ StdLogger

NextFmt ==
    \/ CallPrintLevel /\ UNCHANGED <<fvars, lvars, rvars>>
    \/ CallPrintMsg /\ UNCHANGED <<fvars, lvars, rvars>>

SpecFmt == InitFmt /\ [][NextFmt]_vars

(***************************************************************************)
(* Properties of the FileSink (SpecFile)                                   *)
(***************************************************************************)
\* the last n bytes of d
LastBytes(d, n) == SubSeq(d, Len(d) - n + 1, Len(d))

\* C1: when a rotation completes without panicking, the file's length is
\* exactly keep and its bytes are the last keep bytes the file held just
\* before the rotation started.
C1_RollKeepsTail ==
    (last.op = "log" /\ last.rolled /\ last.result = "ok")
        => /\ Len(disk) = file.keep
           /\ disk = LastBytes(last.pre, file.keep)

\* a rotation of more than one copy chunk completed on a file longer than max
C1_Witness ==
    /\ last.op = "log" /\ last.rolled /\ last.result = "ok"
    /\ file.keep > CopyChunk
    /\ Len(last.pre) > file.max
    /\ disk # SubSeq(last.pre, 1, file.keep)

\* C4 (as claimed): after NewFileSink returns successfully and after every Log
\* call returns, the file is at most max bytes long.
C4_FileAtMostMax ==
    (/\ last.op \in {"new", "log"}
     /\ last.result = "ok"
     /\ file.made
     /\ nfaults = 0)
        => Len(disk) <= file.max

\* C5: NewFileSink returns an error and no sink exactly when keep < 0, max < 0,
\* 2*keep exceeds the largest int64 or 2*keep > max (barring I/O errors), and a
\* constructed sink has 0 <= keep, 0 <= max and 2*keep <= max.
C5_ParamsChecked ==
    LET bad == \/ last.keep < 0
               \/ last.max < 0
               \/ 2 * last.keep > MaxInt64
               \/ 2 * last.keep > last.max
    IN  /\ last.op = "new" /\ bad => last.result = "err" /\ ~file.made
        /\ last.op = "new" /\ ~bad /\ ~last.fault
              => /\ last.result = "ok" /\ file.made
                 /\ file.max = last.max /\ file.keep = last.keep
        /\ file.made => 0 <= file.keep /\ 0 <= file.max /\ 2 * file.keep <= file.max

\* a keep whose double overflows was rejected although max is the largest int64
C5_Witness ==
    /\ last.op = "new" /\ last.result = "err"
    /\ last.keep = MaxInt64 \div 2 + 1
    /\ last.max = MaxInt64

\* C6: a Log call on a sink on which Close has been called returns normally,
\* writes nothing, rotates nothing and leaves size (and the sink) unchanged.
C6_LogAfterCloseNoOp ==
    (last.op = "log" /\ last.wasClosed)
        => /\ last.result = "ok"
           /\ ~last.rolled
           /\ disk = last.diskBefore
           /\ file = last.fileBefore

\* Log was called on a closed sink whose size had reached max
C6_Witness ==
    /\ last.op = "log" /\ last.wasClosed
    /\ file.size >= file.max

\* C7: Close on an already closed sink returns (with or without an error), the
\* sink stays closed and the file is not modified.
C7_SecondCloseSafe ==
    (last.op = "close" /\ last.wasClosed)
        => /\ last.result \in {"ok", "err"}
           /\ closed /\ file.out.nil
           /\ disk = last.diskBefore

\* Close was called on a closed sink and returned the error of the nil handle
C7_Witness ==
    /\ last.op = "close" /\ last.wasClosed
    /\ last.result = "err"
    /\ Len(disk) > 0

(***************************************************************************)
(* Properties of the Logger (SpecLogger)                                   *)
(***************************************************************************)
\* a write that is one whole record: its head, then (if any) its body
WholeRecord(w) ==
    /\ Len(w) \in {1, 2}
    /\ w[1].part = "head"
    /\ Len(w) = 2 => w[2].part = "body" /\ w[2].id = w[1].id

\* C2: no sink's Log is ever executing in two calls at once, and every write a
\* sink's device receives is one whole record.
C2_SinkLogExclusive ==
    \A s \in SinkIds :
        /\ Cardinality(active[s]) <= 1
        /\ \A i \in 1..Len(sout[s]) : WholeRecord(sout[s][i])

\* one thread is in a sink's Log, with part of a record in the sink's buffer,
\* while another has passed its gate and waits for the mutex
C2_Witness ==
    \E t \in Threads, u \in Threads, s \in SinkIds :
        /\ t # u
        /\ active[s] = {t} /\ pc[t] = "sinkBody" /\ mu = t
        /\ pc[u] = "log"

\* thread t makes a call in this step
Calls(t) == ncalls' = ncalls + 1 /\ call'[t].id = ncalls'

\* C3: a call of an entry point whose level is not set in the enabled mask
\* returns with no side effect: no record is built, no sink is touched, the
\* mutex is not taken, and the argument of DebugFunc is not evaluated.
C3_DisabledLevelNoEffect ==
    [][\A t \in Threads :
          (Calls(t) /\ call'[t].kind = "log" /\ ~Enabled(enabled, call'[t].lvl))
              => /\ call'[t].outcome = "returned"
                 /\ pc'[t] = "idle"
                 /\ msg'[t] = NoMsg
                 /\ evals' = evals
                 /\ <<enabled, exit, sinks, mu, rng, idx, active, sbuf, sout,
                      exitCalls, exited>>'
                      = <<enabled, exit, sinks, mu, rng, idx, active, sbuf, sout,
                          exitCalls, exited>>]_vars

\* DebugFunc was called with DEBUG disabled on a Logger that has sinks, and
\* returned
C3_Witness ==
    \E t \in Threads :
        /\ call[t].kind = "log" /\ call[t].func /\ call[t].lvl = DEBUG
        /\ ~call[t].passed /\ call[t].outcome = "returned"
        /\ ~Enabled(enabled, DEBUG)
        /\ Len(sinks) > 0 /\ evals = 0

\* C8 (as claimed): a FATAL-level call made with FATAL enabled invokes the
\* currently configured exit action exactly once, after every attached sink
\* has received the record.
C8_FatalInvokesConfiguredExit ==
    \A t \in Threads :
        (/\ call[t].kind = "log" /\ call[t].lvl = FATAL /\ call[t].passed
         /\ call[t].outcome \in {"returned", "exited"})
            => /\ call[t].exitCount = 1
               /\ call[t].exitRan = call[t].exitCfg
               /\ call[t].done = rng[t]

\* C9 (as claimed): every call of a PANIC-level entry point ends in a panic
\* carrying the formatted message, raised after all attached sinks were called.
C9_EveryPanicCallPanics ==
    \A t \in Threads :
        (/\ call[t].kind = "log" /\ call[t].lvl = PANIC
         /\ call[t].outcome \in {"returned", "panicked", "exited"})
            => /\ call[t].outcome = "panicked"
               /\ call[t].panicVal = msg[t].Body
               /\ call[t].done = rng[t]

\* C9 (amended): a PANIC-level call made while PANIC is enabled never returns
\* normally; it panics with the formatted message after all attached sinks
\* were called, unless a sink's Log panicked first, whose panic it then
\* passes on.  A call made while PANIC is disabled returns normally.
C9_EnabledPanicCallPanics ==
    \A t \in Threads :
        (/\ call[t].kind = "log" /\ call[t].lvl = PANIC
         /\ call[t].outcome \in {"returned", "panicked", "exited"})
            => IF ~call[t].passed THEN call[t].outcome = "returned"
               ELSE /\ call[t].outcome = "panicked"
                    /\ \/ call[t].panicVal = RollError
                       \/ /\ call[t].panicVal = msg[t].Body
                          /\ call[t].done = rng[t]

\* an enabled Panicln call panicked with its message after two sinks were called
C9_Witness ==
    \E t \in Threads :
        /\ call[t].kind = "log" /\ call[t].lvl = PANIC /\ call[t].passed
        /\ call[t].outcome = "panicked"
        /\ call[t].panicVal = Sprint("println", Text)
        /\ Len(call[t].done) = 2

\* thread t has passed its level gate and its dispatch to sinks has not ended
InFlight(t) == pc[t] \in {"log", "range", "sinkHead", "sinkBody", "sinkFlush"}

\* C10 (as claimed): no SetEnabled or SetSinks takes effect between a call's
\* level-gate test and the end of its dispatch to sinks.
C10_SettersExcludedFromGateToDispatch ==
    [][(\E t \in Threads : InFlight(t)) => enabled' = enabled /\ sinks' = sinks]_vars

\* thread t holds a record and is in the range loop of log()
Dispatching(t) == pc[t] \in {"range", "sinkHead", "sinkBody", "sinkFlush"}

\* thread t's call passed its gate and its log() is over
LogOver(t) == call[t].passed /\ pc[t] \in {"after", "idle"}

\* a sink's Log panicked in thread t's call
SinkPanicked(t) ==
    call[t].outcome = "panicked" /\ call[t].panicVal = RollError

\* the sinks whose Log thread t's call has invoked, in the order of invocation
Called(t) ==
    IF pc[t] \in {"sinkHead", "sinkBody", "sinkFlush"} \/ SinkPanicked(t)
    THEN Append(call[t].done, rng[t][idx[t]])
    ELSE call[t].done

\* the number of positions of seq that hold x
Count(seq, x) == Cardinality({i \in 1..Len(seq) : seq[i] = x})

\* while thread t is in the range loop it holds the lock, ranges over the
\* Logger's sink list, has called the sinks before its position in list order,
\* and is inside the Log of the sink at its position only
LockedInOrder(t) ==
    Dispatching(t) =>
        /\ mu = t
        /\ rng[t] = sinks
        /\ idx[t] \in 1..(Len(rng[t]) + 1)
        /\ call[t].done = SubSeq(rng[t], 1, idx[t] - 1)
        /\ \A s \in SinkIds :
               t \in active[s] <=> (pc[t] # "range" /\ s = rng[t][idx[t]])

\* C11 (as claimed): every enabled emission holds the lock throughout its
\* dispatch and, by the time log() is over, has invoked Log on every sink of
\* the list exactly once, in list order.
C11_EverySinkCalledUnderLock ==
    \A t \in Threads :
        /\ LockedInOrder(t)
        /\ LogOver(t) =>
               /\ Called(t) = rng[t]
               /\ \A s \in SinkIds :
                      Count(recv[s], call[t].id) = Count(rng[t], s)

\* C11 (amended): every enabled emission holds the lock throughout its
\* dispatch and invokes Log on the sinks of the list in list order, one at a
\* time and each exactly once; when log() is over it has invoked every sink,
\* unless a sink's Log panicked: then it has invoked the sinks up to and
\* including that one, and none after it.
C11_SinksCalledInOrderUnderLock ==
    \A t \in Threads :
        /\ LockedInOrder(t)
        /\ LogOver(t) =>
               /\ IF SinkPanicked(t)
                     THEN /\ idx[t] \in 1..Len(rng[t])
                          /\ Called(t) = SubSeq(rng[t], 1, idx[t])
                     ELSE Called(t) = rng[t]
               /\ \A s \in SinkIds :
                      Count(recv[s], call[t].id) = Count(Called(t), s)

\* one call has gone through a two-sink list and returned while the other
\* thread waits for the lock or has had its own turn
C11_Witness ==
    \E t \in Threads :
        /\ LogOver(t)
        /\ call[t].outcome = "returned"
        /\ rng[t] = <<"file", "err">>
        /\ call[t].done = rng[t]
        /\ \E u \in Threads \ {t} : call[u].passed

(***************************************************************************)
(* Further properties of the FileSink (SpecFile)                           *)
(***************************************************************************)
\* C12: a successful NewFileSink leaves the file holding its previous content
\* followed by 80 '=' and a newline, and a size of the previous length + 81.
C12_NewAppendsSeparator ==
    (last.op = "new" /\ last.result = "ok") =>
        /\ disk = last.diskBefore \o Repeat(ChEq, 80) \o <<ChNl>>
        /\ file.size = Len(last.diskBefore) + 81
        /\ Len(disk) = Len(last.diskBefore) + 81

\* a second construction right after a first one on a file with old content:
\* the file ends in two separator lines
C12_Witness ==
    /\ last.op = "new" /\ last.result = "ok"
    /\ last.fileBefore.made
    /\ Len(disk) = 130 + 81 + 81
    /\ LastBytes(disk, 162) = Separator \o Separator

\* C13: a Log whose write fails or is short neither panics nor reports it: it
\* returns, the file has gained exactly the bytes that were written (at its
\* end, where the handle stands unless a rotation was broken off before), and
\* size has grown by that number (by nothing when nothing was written), before
\* any rotation that size then calls for.
C13_ShortWriteCounted ==
    (last.op = "log" /\ last.werr) =>
        /\ last.result = "ok"
        /\ last.wrote < last.asked
        /\ IF last.rolled
              THEN last.fileBefore.size + last.wrote >= last.max
              ELSE /\ file.size = last.fileBefore.size + last.wrote
                   /\ last.fileBefore.out.off = Len(last.diskBefore) =>
                          /\ Len(disk) = Len(last.diskBefore) + last.wrote
                          /\ SubSeq(disk, 1, Len(last.diskBefore))
                                 = last.diskBefore

\* a Log wrote half of its record and returned
C13_Witness ==
    /\ last.op = "log" /\ last.werr /\ ~last.rolled
    /\ last.result = "ok"
    /\ last.wrote > 0
    /\ file.size = last.fileBefore.size + last.wrote

\* a Log wrote none of its record and returned with size as it was
C13_WitnessNothingWritten ==
    /\ last.op = "log" /\ last.werr /\ ~last.rolled
    /\ last.wrote = 0
    /\ file.size = last.fileBefore.size

\* the rotation step named by fault does fail in a rotation keeping keep bytes:
\* the copy fails at once only if there is something to copy, and after its
\* first chunk only if more than a chunk is to be copied
Strikes(fault, keep) ==
    /\ fault # "none"
    /\ fault = "copy0" => keep > 0
    /\ fault = "copy1" => keep > CopyChunk

\* C14: a rotation step that fails makes roll panic at that step: the Log call
\* ends in a panic, the file is not truncated (it keeps the length it had when
\* the rotation started) and size is not reset to keep but stays what the
\* write made it; a failure before the copy leaves the file's bytes as they
\* were.
C14_RollPanicsAtFailedStep ==
    (last.op = "log" /\ last.rolled) =>
        /\ Strikes(last.rfault, last.keep) => last.result = "panic"
        /\ last.result = "panic" =>
               /\ Len(disk) = Len(last.pre)
               /\ file.size = last.fileBefore.size + last.wrote
               /\ file.size >= file.max
               /\ last.rfault \in {"sync1", "open", "seekIn", "seekOut", "copy0"}
                      => disk = last.pre

\* the copy of a rotation failed after its first chunk: Log panicked, the
\* start of the file is overwritten, nothing was truncated and size stands
C14_Witness ==
    /\ last.op = "log" /\ last.rolled
    /\ last.rfault = "copy1"
    /\ last.result = "panic"
    /\ disk # last.pre
    /\ Len(disk) = Len(last.pre)
    /\ file.size > file.keep

\* C18: while no I/O error has struck, after NewFileSink and after every Log,
\* rotated or not, the sink's size is the length of the file, and so is the
\* offset of its write handle while the sink is open.
C18_SizeIsLengthIsOffset ==
    (file.made /\ nfaults = 0) =>
        /\ file.size = Len(disk)
        /\ ~file.out.nil => file.out.off = Len(disk)

\* a Log has rotated the file and another has appended to the rotated file:
\* size, length and offset still agree
C18_Witness ==
    /\ file.made /\ nfaults = 0 /\ ~file.out.nil
    /\ last.op = "log" /\ ~last.rolled
    /\ last.fileBefore.size = last.fileBefore.keep
    /\ file.keep > 0
    /\ file.size = Len(disk)
    /\ file.out.off = Len(disk)
    /\ Len(disk) > file.keep

\* C19 (as claimed): a Log on an open sink that returns has rotated exactly
\* when size after its write was at least max, the rotation has reset size to
\* keep, keep is below max, and so size is below max when Log returns.
C19_SizeBelowMaxAfterLog ==
    (last.op = "log" /\ ~last.fileBefore.out.nil /\ last.result = "ok") =>
        /\ last.rolled <=> last.fileBefore.size + last.wrote >= file.max
        /\ last.rolled => file.size = file.keep /\ file.keep < file.max
        /\ file.size < file.max

(***************************************************************************)
(* Further properties of the Logger and its sinks (SpecLogger)             *)
(***************************************************************************)
\* sink s's device has received the record with this id
Wrote(s, id) == \E i \in 1..Len(sout[s]) : sout[s][i][1].id = id

\* the sinks in the list thread t's call ranged over
SinksOf(t) == {rng[t][i] : i \in 1..Len(rng[t])}

\* C15: a record handed to both StdOutSink and StdErrSink is written by exactly
\* one of them: by StdOutSink when its level is DEBUG or NORMAL, by StdErrSink
\* when it is WARNING, ERROR, PANIC or FATAL; each of the six levels is dropped
\* by exactly one of the two.
C15_StdSinksPartitionLevels ==
    /\ \A lvl \in Levels : Drops("out", lvl) # Drops("err", lvl)
    /\ \A t \in Threads :
           (LogOver(t) /\ {"out", "err"} \subseteq SinksOf(t)) =>
               /\ Wrote("out", call[t].id) <=> call[t].lvl \in {DEBUG, NORMAL}
               /\ Wrote("err", call[t].id)
                      <=> call[t].lvl \in {WARNING, ERROR, PANIC, FATAL}

\* a NORMAL record and a PANIC record went through both sinks: standard
\* output holds the first only, standard error the second only
C15_Witness ==
    \E t \in Threads, u \in Threads :
        /\ LogOver(t) /\ LogOver(u)
        /\ {"out", "err"} \subseteq SinksOf(t) \cap SinksOf(u)
        /\ call[t].lvl = NORMAL /\ call[u].lvl = PANIC
        /\ Wrote("out", call[t].id) /\ ~Wrote("err", call[t].id)
        /\ Wrote("err", call[u].id) /\ ~Wrote("out", call[u].id)

(***************************************************************************)
(* Properties of the formatters (SpecFmt)                                  *)
(***************************************************************************)
\* the five characters between the brackets of the tags of the levels
\* 2^0 .. 2^5: DEBUG, _____, WARN!, ERROR, PANIC, FATAL
TagNames ==
    <<<<68, 69, 66, 85, 71>>, <<95, 95, 95, 95, 95>>, <<87, 65, 82, 78, 33>>,
      <<69, 82, 82, 79, 82>>, <<80, 65, 78, 73, 67>>, <<70, 65, 84, 65, 76>>>>

\* ????? between the brackets
UnknownName == <<63, 63, 63, 63, 63>>

\* '[' name ']'
Tag(name) == <<91>> \o name \o <<93>>

\* C16: Level.String gives every 8-bit Level one 7-character tag: the tag of
\* its level for the six single-bit values 1, 2, 4, 8, 16, 32, and [?????] for
\* every other value (0, combined masks, ALL, bits 64 and 128); the six
\* canonical levels are those six distinct powers of two.
C16_LevelTags ==
    /\ <<DEBUG, NORMAL, WARNING, ERROR, PANIC, FATAL>> = [k \in 1..6 |-> 2^(k - 1)]
    /\ fres.op = "PrintLevel" =>
           /\ Len(fres.out) = 7
           /\ IF \E k \in 1..6 : fin.Level = 2^(k - 1)
                 THEN \A k \in 1..6 :
                          fin.Level = 2^(k - 1) => fres.out = Tag(TagNames[k])
                 ELSE fres.out = Tag(UnknownName)

\* the mask ALL was printed as the unknown tag
C16_Witness ==
    /\ fres.op = "PrintLevel"
    /\ fin.Level = ALL
    /\ fres.out = Tag(UnknownName)

RECURSIVE TrailingNewlines(_)
\* the number of newlines b ends in
TrailingNewlines(b) ==
    IF Len(b) = 0 \/ b[Len(b)] # ChNl THEN 0
    ELSE 1 + TrailingNewlines(SubSeq(b, 1, Len(b) - 1))

\* b without the newlines it ends in
Stripped(b) == SubSeq(b, 1, Len(b) - TrailingNewlines(b))

\* C17: PrintMsg writes nothing for an empty body; for any other body it
\* writes the body, ending in the newlines the body ends in, or in one newline
\* if the body ends in none.
C17_PrintMsgNewline ==
    fres.op = "PrintMsg" =>
        IF Len(fin.Body) = 0 THEN Len(fres.out) = 0
        ELSE /\ Stripped(fres.out) = Stripped(fin.Body)
             /\ TrailingNewlines(fres.out)
                    = IF TrailingNewlines(fin.Body) = 0 THEN 1
                      ELSE TrailingNewlines(fin.Body)

\* the body "ab\n", ending in a newline, was printed as it is
C17_Witness ==
    /\ fres.op = "PrintMsg"
    /\ TrailingNewlines(fin.Body) = 1
    /\ Len(fin.Body) = 3
    /\ fres.out = fin.Body

\* the sinks attached to the Logger
Attached == {sinks[i] : i \in 1..Len(sinks)}

\* the ids in seq
Ids(seq) == {seq[i] : i \in 1..Len(seq)}

\* seq without the ids outside keep
Restrict(seq, keep) ==
    LET Kept(id) == id \in keep
    IN  SelectSeq(seq, Kept)

\* no thread is in the range loop of log()
Quiet == \A t \in Threads : ~Dispatching(t)

\* C20 (as claimed): on a Logger whose sink list is never changed, whenever no
\* emission is under way all attached sinks have received the same sequence of
\* records.
C20_SinksReceiveSameSequence ==
    (~isStd /\ Quiet) =>
        \A s1 \in Attached, s2 \in Attached : recv[s1] = recv[s2]

\* C20 (amended): on a Logger whose sink list is never changed, the records
\* two attached sinks have both received reached them in the same order, and
\* whenever no emission is under way all attached sinks have received the same
\* sequence of records, but for the records during whose emission a sink's Log
\* panicked.
C20_SinksReceiveSameOrder ==
    ~isStd =>
        \A s1 \in Attached, s2 \in Attached :
            /\ Restrict(recv[s1], Ids(recv[s2])) = Restrict(recv[s2], Ids(recv[s1]))
            /\ Quiet =>
                   /\ Restrict(recv[s1], Ids(recv[s1]) \ lost)
                          = Restrict(recv[s2], Ids(recv[s2]) \ lost)
                   /\ Ids(recv[s1]) \ Ids(recv[s2]) \subseteq lost

\* two threads logged at once through two sinks, and the record of the call
\* made second reached both sinks first
C20_Witness ==
    /\ ~isStd /\ Quiet
    /\ Len(sinks) = 2
    /\ \A s \in Attached : recv[s] = <<2, 1>>
    /\ \A t \in Threads : LogOver(t)

(***************************************************************************)
(* Progress of the Logger (SpecLockFair)                                   *)
(***************************************************************************)
\* C21: no emission leaves the lock held, also when a sink's Log panics: as
\* long as the process lives, a thread holding the lock gives it up and a
\* thread waiting for it in log() gets it, so that the lock is free for a
\* setter again and again.
C21_LockAlwaysReleased ==
    \A t \in Threads :
        /\ (mu = t) ~> (mu # t \/ exited)
        /\ (pc[t] = "log") ~> (pc[t] # "log" \/ exited)

\* a thread waited for the lock while the other thread's record made a sink
\* panic, and has the lock now
C21_Witness ==
    \E t \in Threads, u \in Threads :
        /\ u # t
        /\ SinkPanicked(t)
        /\ call[t].id = 2 /\ call[u].id = 1
        /\ recv["file"] = <<2, 1>>
        /\ mu = u /\ Dispatching(u)

(***************************************************************************)
(* Close while a Log is under way (SpecRace)                               *)
(***************************************************************************)
\* C22 (as claimed): with Close called by one thread while another is in Log
\* on the same FileSink, no Log call panics, and the file is not changed after
\* Close has returned.
C22_CloseDuringLogIsSafe ==
    /\ ~rloc.panicked
    /\ closed => disk = rloc.diskAtClose

====
